---- MODULE Spec2Model ----
(***************************************************************************)
(* Chat relay of swflcoders: REST ingestion into the chat-messages table,  *)
(* the DynamoDB stream that triggers ws-broadcast, the chat-connections    *)
(* table written by ws-onconnect / ws-ondisconnect, and the fanout of each *)
(* inserted message to the connections of its room.                        *)
(*                                                                         *)
(* The tables, their keys, the room-index, the TTL attribute, the seeded   *)
(* room, the stream trigger and the request conversion of the frontend are *)
(* modelled from the TypeScript sources.  The Rust handlers (rest,         *)
(* ws-connect, ws-disconnect, ws-broadcast) are not part of the sources;   *)
(* their steps follow the design document and use only the operations the  *)
(* declared tables offer.                                                  *)
(***************************************************************************)
EXTENDS Integers, Sequences, FiniteSets, TLC

\* ---------------------------------------------------------------- bounds
MaxClock == 2            \* the server clock runs over 0..MaxClock
MaxMsgs == 2             \* messages appended in one behaviour
MaxInFlight == 2         \* concurrent executions of the rest handler
MaxConns == 2            \* connection handles the gateway hands out
MaxLookupFailures == 1   \* failed registry lookups in one behaviour
MaxAttempts == 2         \* delivery attempts per message and connection
FixedTtl == 1            \* ttl = connected_at + FixedTtl

\* ------------------------------------------------------ program constants
MaxClientIds == 3
MaxTimestamp == 2
MaxTextLen == 1000       \* "text: Required, 1-1000 characters"
BatchSize == 10          \* DynamoEventSource batchSize

\* ------------------------------------------------------------ value sets
Null == "null"
Undefined == "undefined"
DEFAULT_ROOM_ID == "general"
RoomIds == {"general", "lobby"}
UserIds == {"u1", "u2"}
UserOf(s) == IF s = 1 THEN "u1" ELSE "u2"   \* the client behind a slot
Usernames == {"alice"}
TextLens == {0, MaxTextLen, MaxTextLen + 1}
ClientIds == {Undefined, "", "k1"}
Slots == 1..MaxInFlight
ConnIds == 1..MaxConns
MsgIds == 1..MaxMsgs
NoCall == [pc |-> "free"]

\* SendMessageRequestUI values the client can build.  The text is
\* represented by its length.
SendMessageRequestUI ==
    [roomId : RoomIds, userId : UserIds, username : Usernames,
     text : TextLens, clientMessageId : ClientIds]

VARIABLES
    now,              \* server clock
    chatRooms,        \* chat-rooms table: the set of room ids
    chatMessages,     \* chat-messages table: a set of rows
    stream,           \* records the event source mapping passes to ws-broadcast
    nextId,           \* next message id the rest handler assigns
    inflight,         \* slot -> request between its lookup and its write
    lastCall,         \* request and response of the call that returned last
    responses,        \* <<room_id, client_message_id, id>> of returned messages
    chatConnections,  \* chat-connections table: a set of rows
    transport,        \* connection handle -> "unused", "open" or "closed"
    disconnects,      \* handles whose $disconnect event is not yet handled
    nextConn,         \* next connection handle the gateway hands out
    wsFrame,          \* last frame handled by $default and what came back
    mergedCache,      \* client: query cache kept with mergeMessagesById
    appendCache,      \* client: query cache kept with the exists check
    received,         \* connection handle -> ids in order of first copy
    shardPos,         \* stream records checkpointed by the event source
    worker,           \* the ws-broadcast invocation of the shard
    runNo,            \* invocations of ws-broadcast started so far
    lookupFailures,   \* registry lookups that failed so far
    lastRun,          \* how the last invocation ended: "ok" or "failed"
    goneRun           \* handle -> invocation in which it answered gone, or 0

ingestVars == <<chatRooms, chatMessages, stream, nextId, inflight, lastCall,
                responses>>
registryVars == <<chatConnections, transport, disconnects, nextConn, wsFrame>>
fanoutVars == <<shardPos, worker, runNo, lookupFailures, lastRun, goneRun>>
clientVars == <<mergedCache, appendCache, received>>
vars == <<now, ingestVars, registryVars, fanoutVars, clientVars>>

\* ---------------------------------------------------------------- tables

\* Variant: the table is keyed by the id of the message.
MessageKey_byId(row) == <<row.id>>

\* Primary key of chat-messages: partition key room_id, sort key ts.
MessageKey(row) == <<row.room_id, row.ts>>

\* PutItem with attribute_not_exists on the key: the item is written only
\* when the table has no item with the same primary key.
KeyFree(table, row) == \A x \in table : MessageKey(x) # MessageKey(row)

\* Variant: PutItem without the condition, an item with the key is replaced.
PutItemIfAbsent_replace(table, row) ==
    {x \in table : MessageKey(x) # MessageKey(row)} \cup {row}

PutItemIfAbsent(table, row) ==
    IF KeyFree(table, row) THEN table \cup {row} ELSE table

\* Rows of a partition in ascending sort-key order.
RECURSIVE SortByTs(_)
SortByTs(S) ==
    IF S = {} THEN << >>
    ELSE LET m == CHOOSE x \in S : \A y \in S : x.ts <= y.ts
         IN  <<m>> \o SortByTs(S \ {m})

\* Reverse of a sequence.
Reverse(q) == [i \in 1..Len(q) |-> q[Len(q) + 1 - i]]

\* Variant: the query scans the sort key backward.
QueryMessages_backward(table, room) ==
    Reverse(SortByTs({x \in table : x.room_id = room}))

\* Variant: the query carries Limit 1.
QueryMessages_limitOne(table, room) ==
    SubSeq(SortByTs({x \in table : x.room_id = room}), 1, 1)

\* Query of chat-messages with KeyConditionExpression room_id = :roomId.
QueryMessages(table, room) ==
    SortByTs({x \in table : x.room_id = room})

\* Item put by the SeedGeneralRoom custom resource.
SeedGeneralRoom == {"general"}

\* Stream record of a write to chat-messages (NEW_IMAGE): INSERT when the
\* key was free, MODIFY when an item was replaced.
StreamRecord(table, row) ==
    [eventName |-> IF KeyFree(table, row) THEN "INSERT" ELSE "MODIFY",
     id |-> row.id, room_id |-> row.room_id]

\* Filter of the event source mapping: eventName = INSERT.
\* Variant: the filter names the event of an overwrite.
FilterCriteria_modify(record) == record.eventName = "MODIFY"

FilterCriteria(record) == record.eventName = "INSERT"

\* chat-connections: partition key connection_id, no sort key.  PutItem
\* replaces the item with the same key, DeleteItem succeeds when it is absent.
PutConnection(table, row) ==
    {x \in table : x.connection_id # row.connection_id} \cup {row}

\* Variant: the delete names a key the table does not have, nothing goes.
DeleteConnection_wrongKey(table, c) == table

\* Variant: the delete goes by the room of the handle, as room-index does.
DeleteConnection_byRoom(table, c) ==
    {x \in table : \A y \in table : y.connection_id = c => x.room_id # y.room_id}

DeleteConnection(table, c) == {x \in table : x.connection_id # c}

\* Variant: ws-broadcast is granted read access only.
grantReadWriteData_readOnlyBroadcast == {"ws-onconnect", "ws-ondisconnect"}

\* Variant: the grant to ws-ondisconnect is missing.
grantReadWriteData_noDisconnect == {"ws-onconnect", "ws-broadcast"}

\* Functions granted read and write access to chat-connections.
grantReadWriteData == {"ws-onconnect", "ws-ondisconnect", "ws-broadcast"}

\* Variant: the delete of ws-broadcast is left to a later clean-up.
DeleteItem_afterDone(fn, table, c) ==
    IF fn = "ws-broadcast" THEN table ELSE DeleteConnection(table, c)

\* DeleteItem by function fn: unconditional, refused without the grant.
DeleteItem(fn, table, c) ==
    IF fn \in grantReadWriteData THEN DeleteConnection(table, c) ELSE table

\* Variant: a scan of the table instead of a query of room-index.
RoomIndex_scan(table, room) == table

\* room-index: the rows of chat-connections with partition key room_id.
RoomIndex(table, room) == {x \in table : x.room_id = room}

\* Variant: the table names no TTL attribute, no row ever expires.
Expired_never(table, t) == {}

\* Rows the TTL process of chat-connections may delete: ttl in the past.
Expired(table, t) == {x \in table : x.ttl < t}

\* ------------------------------------------------------------- ingestion

\* clientMessageId || null: undefined and the empty string become null.
OrNull(v) == IF v = Undefined \/ v = "" THEN Null ELSE v

\* Variant: the token travels under the key clientMessageId, which the
\* backend does not read, so client_message_id arrives as null.
sendMessageRequestToBackend_camelCase(request) ==
    [room_id           |-> request.roomId,
     user_id           |-> request.userId,
     username          |-> request.username,
     message_text      |-> request.text,
     client_message_id |-> Null]

sendMessageRequestToBackend(request) ==
    [room_id           |-> request.roomId,
     user_id           |-> request.userId,
     username          |-> request.username,
     message_text      |-> request.text,
     client_message_id |-> OrNull(request.clientMessageId)]

\* Variant: the upper limit is off by one.
ValidText_offByOne(len) == len >= 1 /\ len <= MaxTextLen + 1

\* Validation rule of the text: required, 1..MaxTextLen characters.
ValidText(len) == len >= 1 /\ len <= MaxTextLen

\* Validation of the rest handler: a valid text and a room that exists in
\* chat-rooms.
ValidRequest(req) ==
    /\ ValidText(req.message_text)
    /\ req.room_id \in chatRooms

\* Idempotency lookup: the stored rows of the room with this token.
FindByClientMessageId(room, k) ==
    {x \in chatMessages : x.room_id = room /\ x.client_message_id = k}

\* Variant: the handler pushes the message itself and reports a failed push.
Respond_afterDelivery(req, status, id) ==
    lastCall' =
        [req |-> req,
         status |-> IF /\ status \in {"Created", "Stored"}
                       /\ \E x \in chatConnections :
                              /\ x.room_id = req.room_id
                              /\ transport[x.connection_id] # "open"
                    THEN "StoreUnavailable" ELSE status,
         id |-> id]

Respond(req, status, id) ==
    lastCall' = [req |-> req, status |-> status, id |-> id]

\* The ids returned to the client, by the room and the token it submitted.
Record(ui, id) ==
    responses' = IF ui.clientMessageId \in {Undefined, ""} THEN responses
                 ELSE responses \cup {<<ui.roomId, ui.clientMessageId, id>>}

InFlightCount == Cardinality({t \in Slots : inflight[t] # NoCall})

\* Registry.get_by_room: the handles subscribed to a room.
get_by_room(room) == {x.connection_id : x \in RoomIndex(chatConnections, room)}

\* POST /chat/messages, first part: validation and the idempotency lookup.
IngestBegin(s, ui) ==
    /\ inflight[s] = NoCall
    /\ ui.userId = UserOf(s)
    /\ LET req == sendMessageRequestToBackend(ui)
           old == FindByClientMessageId(req.room_id, req.client_message_id)
       IN  IF ~ValidRequest(req)
           THEN /\ Respond(req, "InvalidRequest", 0)
                /\ UNCHANGED <<inflight, responses>>
           ELSE IF req.client_message_id # Null /\ old # {}
           THEN LET row == CHOOSE x \in old : \A y \in old : x.ts <= y.ts
                IN  /\ Respond(req, "Stored", row.id)
                    /\ Record(ui, row.id)
                    /\ UNCHANGED inflight
           ELSE /\ nextId + InFlightCount <= MaxMsgs
                /\ inflight' = [inflight EXCEPT
                                  ![s] = [pc |-> "put", ui |-> ui, req |-> req]]
                /\ UNCHANGED <<lastCall, responses>>
    /\ UNCHANGED <<now, clientVars, chatRooms, chatMessages, stream, nextId>>
    /\ UNCHANGED <<registryVars, fanoutVars>>

\* POST /chat/messages, second part: assign id and created_at and append
\* with a conditional write on the key (room_id, ts).
NewMessage(req, id, ts) ==
    [id |-> id, room_id |-> req.room_id, ts |-> ts, user_id |-> req.user_id,
     message_text |-> req.message_text,
     client_message_id |-> req.client_message_id]

IngestPut(s) ==
    /\ inflight[s] # NoCall
    /\ LET req == inflight[s].req
           row == NewMessage(req, nextId, now)
           rec == StreamRecord(chatMessages, row)
           put == PutItemIfAbsent(chatMessages, row)
       IN  IF row \in put /\ put # chatMessages
           THEN /\ chatMessages' = put
                /\ stream' = IF FilterCriteria(rec) THEN Append(stream, rec)
                             ELSE stream
                /\ nextId' = nextId + 1
                /\ Respond(req, "Created", row.id)
                /\ Record(inflight[s].ui, row.id)
           ELSE /\ Respond(req, "StoreUnavailable", 0)
                /\ UNCHANGED <<chatMessages, stream, nextId, responses>>
    /\ inflight' = [inflight EXCEPT ![s] = NoCall]
    /\ UNCHANGED <<now, clientVars, chatRooms, registryVars, fanoutVars>>

\* GET /chat/messages/{room_id}: the rows of the room, oldest first.
GetMessages(room) == QueryMessages(chatMessages, room)

\* ------------------------------------------------------------- lifecycle

\* Functions given the name of chat-rooms and access to it.
chatRoomsTableGrant == {"rust-chat"}

\* What a function can tell about a room: without chat-rooms, nothing, and
\* every room id passes.
RoomKnown(fn, room) == fn \in chatRoomsTableGrant => room \in chatRooms

\* Variant: the row is keyed by the user, one user here, not by the handle.
ConnectionRow_keyedByUser(c, room, t) ==
    [connection_id |-> 1, room_id |-> room, connected_at |-> t,
     ttl |-> t + FixedTtl]

\* Variant: the expiry is the TTL alone, not counted from the subscribe.
ConnectionRow_ttlAlone(c, room, t) ==
    [connection_id |-> c, room_id |-> room, connected_at |-> t,
     ttl |-> FixedTtl]

\* The row ws-onconnect writes for a handle.
ConnectionRow(c, room, t) ==
    [connection_id |-> c, room_id |-> room, connected_at |-> t,
     ttl |-> t + FixedTtl]

\* $connect: the gateway hands out a fresh handle and ws-onconnect puts the
\* row with ttl = now + FixedTtl.
Connect(room) ==
    /\ nextConn <= MaxConns
    /\ RoomKnown("ws-onconnect", room)
    /\ chatConnections' =
           PutConnection(chatConnections, ConnectionRow(nextConn, room, now))
    /\ transport' = [transport EXCEPT ![nextConn] = "open"]
    /\ nextConn' = nextConn + 1
    /\ UNCHANGED <<now, clientVars, ingestVars, disconnects, wsFrame, fanoutVars>>

\* The client side of a connection goes away; the gateway queues $disconnect.
Close(c) ==
    /\ transport[c] = "open"
    /\ transport' = [transport EXCEPT ![c] = "closed"]
    /\ disconnects' = disconnects \cup {c}
    /\ UNCHANGED <<now, clientVars, ingestVars, chatConnections, nextConn, wsFrame,
                   fanoutVars>>

\* $disconnect: ws-ondisconnect deletes the row.
OnDisconnect(c) ==
    /\ c \in disconnects
    /\ chatConnections' = DeleteItem("ws-ondisconnect", chatConnections, c)
    /\ disconnects' = disconnects \ {c}
    /\ UNCHANGED <<now, clientVars, ingestVars, transport, nextConn, wsFrame, fanoutVars>>

\* The TTL process of chat-connections deletes an expired row.
TtlExpire(c) ==
    /\ \E x \in Expired(chatConnections, now) : x.connection_id = c
    /\ chatConnections' = DeleteConnection(chatConnections, c)
    /\ UNCHANGED <<now, clientVars, ingestVars, transport, disconnects, nextConn,
                   wsFrame, fanoutVars>>

\* What the gateway sends back on the connection for the result of a route's
\* integration: the WebSocket API gives no route a returnResponse, so the
\* result is discarded.
RouteResponse(route, body) == "none"

NoFrame == [to |-> 0]

\* $default: any frame that matches no other route goes to ws-default,
\* which has no table and no grant; it returns "unsupported operation".
OnDefault(c) ==
    /\ transport[c] = "open"
    /\ wsFrame' = [to |-> c, result |-> "unsupported operation",
                   client |-> RouteResponse("$default",
                                            "unsupported operation")]
    /\ UNCHANGED <<now, clientVars, ingestVars, chatConnections, transport, disconnects,
                   nextConn, fanoutVars>>

\* ---------------------------------------------------------------- client
\* Messages as the client holds them: id and timestamp.
Message == [id : 1..MaxClientIds, timestamp : 1..MaxTimestamp]

\* Map.set: the value of an id already in the map is overwritten in place,
\* a new id goes to the end.
MapSet(m, msg) ==
    IF \E i \in 1..Len(m) : m[i].id = msg.id
    THEN [i \in 1..Len(m) |-> IF m[i].id = msg.id THEN msg ELSE m[i]]
    ELSE Append(m, msg)

RECURSIVE ForEachSet(_, _)
ForEachSet(m, q) ==
    IF q = << >> THEN m ELSE ForEachSet(MapSet(m, Head(q)), Tail(q))

\* Array.prototype.sort by timestamp: stable.
InsertByTimestamp(q, x) ==
    LET k == Cardinality({i \in 1..Len(q) : q[i].timestamp <= x.timestamp})
    IN  SubSeq(q, 1, k) \o <<x>> \o SubSeq(q, k + 1, Len(q))

RECURSIVE SortByTimestamp(_)
SortByTimestamp(q) ==
    IF q = << >> THEN << >>
    ELSE InsertByTimestamp(SortByTimestamp(SubSeq(q, 1, Len(q) - 1)),
                           q[Len(q)])

\* Variant: the arrays are concatenated and sorted, without the map.
mergeMessagesById_concat(existing, incoming) ==
    SortByTimestamp(existing \o incoming)

mergeMessagesById(existing, incoming) ==
    SortByTimestamp(ForEachSet(ForEachSet(<< >>, existing), incoming))

\* setQueryData of the older hooks: append unless the id is in the list.
AppendIfNew(old, message) ==
    IF \E i \in 1..Len(old) : old[i].id = message.id THEN old
    ELSE Append(old, message)

\* useSendMessage.onSuccess: the message of the response goes into the cache.
OnSuccess(message) ==
    /\ mergedCache' = mergeMessagesById(mergedCache, <<message>>)
    /\ appendCache' = AppendIfNew(appendCache, message)
    /\ UNCHANGED <<now, received, ingestVars, registryVars, fanoutVars>>

\* useOptimisticMessage.addMessage: a pushed message goes into the cache.
addMessage(message) ==
    /\ mergedCache' = mergeMessagesById(mergedCache, <<message>>)
    /\ appendCache' = AppendIfNew(appendCache, message)
    /\ UNCHANGED <<now, received, ingestVars, registryVars, fanoutVars>>

\* Lists fetchMessages can return: one entry per id, oldest first.
FetchedLists ==
    {SortByTimestamp(q) :
        q \in {r \in UNION {[1..n -> Message] : n \in 0..2} :
                  \A i, j \in 1..Len(r) : i # j => r[i].id # r[j].id}}

\* useMessages: a refetch replaces the cache with the fetched list.
Refetch(q) ==
    /\ mergedCache' = q
    /\ appendCache' = q
    /\ UNCHANGED <<now, received, ingestVars, registryVars, fanoutVars>>

\* ----------------------------------------------------------------- clock
Tick ==
    /\ now < MaxClock
    /\ now' = now + 1
    /\ UNCHANGED <<ingestVars, registryVars, fanoutVars, clientVars>>

\* ---------------------------------------------------------------- fanout
Idle == [status |-> "idle"]
Min(a, b) == IF a < b THEN a ELSE b
With(f, c, v) == [x \in DOMAIN f \cup {c} |-> IF x = c THEN v ELSE f[x]]
CurrentRecord == worker.batch[worker.idx]

\* Variant: the records of a batch are handed over newest first.
StartBatch_newestFirst(n) ==
    /\ worker = Idle
    /\ n >= 1
    /\ n <= Min(BatchSize, Len(stream) - shardPos)
    /\ runNo' = runNo + 1
    /\ worker' = [status |-> "running",
                  batch |-> Reverse(SubSeq(stream, shardPos + 1, shardPos + n)),
                  idx |-> 1, phase |-> "RECEIVED", resolved |-> {},
                  pending |-> << >>, results |-> << >>]
    /\ lastRun' = "running"
    /\ UNCHANGED <<now, clientVars, ingestVars, registryVars, shardPos,
                   lookupFailures, goneRun>>

\* The event source mapping invokes ws-broadcast with the next records of
\* the shard, at most BatchSize of them, one invocation at a time.
StartBatch(n) ==
    /\ worker = Idle
    /\ n >= 1
    /\ n <= Min(BatchSize, Len(stream) - shardPos)
    /\ runNo' = runNo + 1
    /\ worker' = [status |-> "running",
                  batch |-> SubSeq(stream, shardPos + 1, shardPos + n),
                  idx |-> 1, phase |-> "RECEIVED", resolved |-> {},
                  pending |-> << >>, results |-> << >>]
    /\ lastRun' = "running"
    /\ UNCHANGED <<now, clientVars, ingestVars, registryVars, shardPos, lookupFailures,
                   goneRun>>

\* RECEIVED -> CONNECTIONS_RESOLVED: get_by_room of the message's room.
ResolveConnections ==
    /\ worker.status = "running"
    /\ worker.phase = "RECEIVED"
    /\ LET conns == get_by_room(CurrentRecord.room_id)
       IN  worker' = [worker EXCEPT !.phase = "DELIVERING",
                                    !.resolved = conns,
                                    !.pending = [c \in conns |-> 0],
                                    !.results = << >>]
    /\ UNCHANGED <<now, clientVars, ingestVars, registryVars, shardPos, runNo,
                   lookupFailures, lastRun, goneRun>>

\* Variant: retryAttempts 0, a failed batch is skipped.
OnInvocationFailure_noRetry(pos, batch) == pos + Len(batch)

\* Position of the shard after a failed invocation: the event source sets
\* no retry limit, bisect or failure destination, so it stays.
OnInvocationFailure(pos, batch) == pos

\* Variant: a finished delivery stays among the outstanding ones.
Without_none(f, c) == f

\* Variant: a failure of one delivery abandons the others.
Without_all(f, c) == << >>

Without(f, c) == [x \in DOMAIN f \ {c} |-> f[x]]

\* The registry lookup fails: the invocation fails and the event source
\* keeps its position, so the same records are delivered again.
LookupFails ==
    /\ worker.status = "running"
    /\ worker.phase = "RECEIVED"
    /\ lookupFailures < MaxLookupFailures
    /\ lookupFailures' = lookupFailures + 1
    /\ lastRun' = "failed"
    /\ worker' = Idle
    /\ shardPos' = OnInvocationFailure(shardPos, worker.batch)
    /\ UNCHANGED <<now, clientVars, ingestVars, registryVars, runNo, goneRun>>

\* What the gateway answers to a push on a handle.
Outcomes(c) ==
    IF transport[c] = "open" THEN {"ok", "transient"} ELSE {"gone", "transient"}

\* Variant: one more attempt than the fixed count.
Account_oneMore(outcome, n) ==
    CASE outcome = "ok" -> "ok"
      [] outcome = "gone" -> "gone"
      [] outcome = "transient" /\ n <= MaxAttempts -> "retry"
      [] OTHER -> "dropped"

\* How one delivery ends for the connection: retried, or accounted as
\* delivered, pruned or dropped.
Account(outcome, n) ==
    CASE outcome = "ok" -> "ok"
      [] outcome = "gone" -> "gone"
      [] outcome = "transient" /\ n < MaxAttempts -> "retry"
      [] OTHER -> "dropped"

\* DELIVERING: one delivery attempt of the current message to connection c.
\* ok finishes the connection, gone deletes its row, a transient failure is
\* retried until MaxAttempts attempts were made.
PostToConnection(c, outcome) ==
    /\ worker.status = "running"
    /\ worker.phase = "DELIVERING"
    /\ c \in DOMAIN worker.pending
    /\ outcome \in Outcomes(c)
    /\ LET n == worker.pending[c] + 1
           end == Account(outcome, n)
       IN  /\ worker' = IF end = "retry"
                        THEN [worker EXCEPT !.pending[c] = n]
                        ELSE [worker EXCEPT !.pending = Without(@, c),
                                            !.results = With(@, c, end)]
           /\ goneRun' = IF end = "gone" THEN [goneRun EXCEPT ![c] = runNo]
                         ELSE goneRun
           /\ chatConnections' = IF end = "gone"
                                 THEN DeleteItem("ws-broadcast",
                                                 chatConnections, c)
                                 ELSE chatConnections
    /\ UNCHANGED <<now, ingestVars, transport, disconnects, nextConn, wsFrame,
                   shardPos, runNo, lookupFailures, lastRun>>

\* The delivery attempt as the relay sees it.
Deliver(c, outcome) ==
    /\ PostToConnection(c, outcome)
    /\ UNCHANGED clientVars

\* The delivery attempt with the receiving side: a delivery that succeeded
\* puts the message on the connection, whose client notes a first copy.
FirstCopy(seen, id) ==
    IF \E i \in 1..Len(seen) : seen[i] = id THEN seen ELSE Append(seen, id)
Receive(c, outcome) ==
    /\ PostToConnection(c, outcome)
    /\ received' = IF outcome = "ok"
                   THEN [received EXCEPT ![c] = FirstCopy(@, CurrentRecord.id)]
                   ELSE received
    /\ UNCHANGED <<mergedCache, appendCache>>

\* DELIVERING -> DONE once no delivery is outstanding; then the next record
\* of the batch, or the invocation returns and the position advances.
FinishMessage ==
    /\ worker.status = "running"
    /\ worker.phase = "DELIVERING"
    /\ DOMAIN worker.pending = {}
    /\ IF worker.idx < Len(worker.batch)
       THEN /\ worker' = [worker EXCEPT !.idx = @ + 1, !.phase = "RECEIVED",
                                        !.resolved = {}, !.results = << >>]
            /\ UNCHANGED <<shardPos, lastRun>>
       ELSE /\ worker' = Idle
            /\ shardPos' = shardPos + Len(worker.batch)
            /\ lastRun' = "ok"
    /\ UNCHANGED <<now, clientVars, ingestVars, registryVars, runNo, lookupFailures,
                   goneRun>>

\* --------------------------------------------------------- specification
Init ==
    /\ now = 0
    /\ chatRooms = SeedGeneralRoom
    /\ chatMessages = {}
    /\ stream = << >>
    /\ nextId = 1
    /\ inflight = [s \in Slots |-> NoCall]
    /\ lastCall = [status |-> "none"]
    /\ responses = {}
    /\ chatConnections = {}
    /\ transport = [c \in ConnIds |-> "unused"]
    /\ disconnects = {}
    /\ nextConn = 1
    /\ wsFrame = NoFrame
    /\ mergedCache = << >>
    /\ appendCache = << >>
    /\ received = [c \in ConnIds |-> << >>]
    /\ shardPos = 0
    /\ worker = Idle
    /\ runNo = 0
    /\ lookupFailures = 0
    /\ lastRun = "none"
    /\ goneRun = [c \in ConnIds |-> 0]

Ingestion ==
    \/ \E s \in Slots, ui \in SendMessageRequestUI : IngestBegin(s, ui)
    \/ \E s \in Slots : IngestPut(s)

Lifecycle ==
    \/ \E room \in RoomIds : Connect(room)
    \/ \E c \in ConnIds : Close(c)
    \/ \E c \in ConnIds : OnDisconnect(c)
    \/ \E c \in ConnIds : TtlExpire(c)

Fanout ==
    \/ \E n \in 1..BatchSize : StartBatch(n)
    \/ ResolveConnections
    \/ LookupFails
    \/ \E c \in ConnIds, o \in {"ok", "gone", "transient"} : Deliver(c, o)
    \/ FinishMessage

Next == Ingestion \/ Lifecycle \/ Fanout \/ Tick

Spec == Init /\ [][Next]_vars

\* Ingestion alone, with concurrent executions of the rest handler.
IngestNext == Ingestion \/ Tick
IngestSpec == Init /\ [][IngestNext]_vars

\* Ingestion alone, one call after the other: a call is accepted only when
\* no other call is between its lookup and its write.
SeqIngestBegin(s, ui) ==
    /\ \A t \in Slots : inflight[t] = NoCall
    /\ IngestBegin(s, ui)
SeqNext ==
    \/ \E s \in Slots, ui \in SendMessageRequestUI : SeqIngestBegin(s, ui)
    \/ \E s \in Slots : IngestPut(s)
    \/ Tick
SeqSpec == Init /\ [][SeqNext]_vars

\* The relay with one client that posts well-formed messages: registry,
\* stream and fanout in full.
PlainRequests ==
    {ui \in SendMessageRequestUI :
        ui.roomId = DEFAULT_ROOM_ID /\ ui.text = MaxTextLen
        /\ ui.clientMessageId = Undefined}
RelayNext ==
    \/ \E ui \in PlainRequests : IngestBegin(1, ui)
    \/ IngestPut(1)
    \/ Lifecycle
    \/ Fanout
    \/ Tick
RelaySpec == Init /\ [][RelayNext]_vars

\* The event source keeps polling the shard and an invocation runs to its
\* end: a step of the fanout that stays possible is taken.
LiveSpec == Init /\ [][RelayNext]_vars /\ WF_vars(Fanout)

\* The relay seen together with what each connection receives.
InboxNext ==
    \/ \E ui \in PlainRequests : IngestBegin(1, ui)
    \/ IngestPut(1)
    \/ Lifecycle
    \/ \E n \in 1..BatchSize : StartBatch(n)
    \/ ResolveConnections
    \/ LookupFails
    \/ \E c \in ConnIds, o \in {"ok", "gone", "transient"} : Receive(c, o)
    \/ FinishMessage
    \/ Tick
InboxSpec == Init /\ [][InboxNext]_vars

\* The relay with clients that also send frames of their own.
FrameNext ==
    \/ RelayNext
    \/ \E c \in ConnIds : OnDefault(c)
FrameSpec == Init /\ [][FrameNext]_vars

\* One sender whose requests are of every kind, while connections come and
\* go and the fanout runs.
SenderRequests ==
    {ui \in SendMessageRequestUI :
        /\ ui.roomId = DEFAULT_ROOM_ID
        /\ ui.text # MaxTextLen + 1
        /\ ui.clientMessageId \in {Undefined, "k1"}
        /\ ui.text = 0 => ui.clientMessageId = Undefined}
SenderNext ==
    \/ \E ui \in SenderRequests : IngestBegin(1, ui)
    \/ IngestPut(1)
    \/ Lifecycle
    \/ Fanout
    \/ Tick
SenderSpec == Init /\ [][SenderNext]_vars

\* The client alone: responses, pushes and refetches in any order, any
\* message any number of times.
ClientNext ==
    \/ \E message \in Message : OnSuccess(message)
    \/ \E message \in Message : addMessage(message)
    \/ \E q \in FetchedLists : Refetch(q)
ClientSpec == Init /\ [][ClientNext]_vars

\* The TTL process of the table keeps running: an expired row that stays
\* in the table is deleted.  Nothing else is assumed to happen.
TtlSpec ==
    Init /\ [][RelayNext]_vars /\ \A c \in ConnIds : WF_vars(TtlExpire(c))

\* ================================================================ claims
Tokens == ClientIds \ {Undefined, ""}
RowsWith(room, k) ==
    {x \in chatMessages : x.room_id = room /\ x.client_message_id = k}
IdsReturned(room, k) ==
    {t[3] : t \in {x \in responses : x[1] = room /\ x[2] = k}}

\* C1: calls made one after the other with the same (room_id,
\* client_message_id) all return the same message id, and the store holds
\* exactly one row with that pair.
C1_IdempotentIngestion ==
    \A room \in RoomIds, k \in Tokens :
        IdsReturned(room, k) # {} =>
            /\ Cardinality(IdsReturned(room, k)) = 1
            /\ Cardinality(RowsWith(room, k)) = 1
            /\ \A x \in RowsWith(room, k) : x.id \in IdsReturned(room, k)

\* A token was submitted again and answered from the store.
C1_Witness ==
    /\ lastCall.status = "Stored"
    /\ lastCall.req.client_message_id = "k1"
    /\ Cardinality(chatMessages) = 2

IdsOf(q) == [i \in 1..Len(q) |-> q[i].id]
AppendOrder(room) ==
    LET InRoom(rec) == rec.room_id = room
    IN  IdsOf(SelectSeq(stream, InRoom))

C6_OneRowPerToken ==
    \A room \in RoomIds, k \in Tokens : Cardinality(RowsWith(room, k)) <= 1

InvalidInput(req) ==
    \/ req.message_text = 0
    \/ req.message_text > MaxTextLen
    \/ req.room_id \notin SeedGeneralRoom

\* C7: a call with an empty or too long text or an unknown room is answered
\* InvalidRequest, and the step that answers it leaves chat-messages and
\* its stream as they were.
C7_InvalidRequest ==
    [][(lastCall' # lastCall /\ InvalidInput(lastCall'.req)) =>
          /\ lastCall'.status = "InvalidRequest"
          /\ chatMessages' = chatMessages
          /\ stream' = stream
          /\ inflight' = inflight]_vars

\* An invalid call was rejected after a message had been stored.
C7_Witness ==
    /\ lastCall.status = "InvalidRequest"
    /\ chatMessages # {}

RegistryIds == {x.connection_id : x \in chatConnections}
Running == worker.status = "running"
Delivering == Running /\ worker.phase = "DELIVERING"
Touched == IF Running THEN DOMAIN worker.pending \cup DOMAIN worker.results
           ELSE {}

\* C3: a connection that answered gone has no row from the end of that
\* invocation on, and no later invocation delivers to it.
C3_PruningCorrectness ==
    \A c \in ConnIds :
        goneRun[c] # 0 =>
            /\ (worker = Idle \/ runNo > goneRun[c]) => c \notin RegistryIds
            /\ runNo > goneRun[c] => c \notin Touched

\* A later invocation delivers to another connection after one was pruned.
C3_Witness ==
    \E c \in ConnIds :
        /\ goneRun[c] # 0
        /\ runNo > goneRun[c]
        /\ Delivering
        /\ \E d \in DOMAIN worker.results : worker.results[d] = "ok"

RowsOfRoom(room) == {x \in chatConnections : x.room_id = room}
StoredIds == {x.id : x \in chatMessages}

\* C5: when no connection is registered for the room of a message, the
\* lookup resolves to nothing, no delivery is attempted, and the fanout of
\* the stored message finishes without failing the invocation.
C5_EmptyRoom ==
    [][/\ (/\ Running
           /\ worker.phase = "RECEIVED"
           /\ RowsOfRoom(CurrentRecord.room_id) = {}
           /\ worker' # Idle
           /\ worker' # worker)
          => (worker'.phase = "DELIVERING" /\ DOMAIN worker'.pending = {}
              /\ worker'.resolved = {})
       /\ (Delivering /\ worker.resolved = {})
          => /\ CurrentRecord.id \in StoredIds
             /\ Touched = {}
             /\ \A c \in ConnIds, o \in {"ok", "gone", "transient"} :
                    ~Deliver(c, o)
             /\ worker' # worker => (FinishMessage /\ lastRun' # "failed")
      ]_vars

\* The fanout of a message resolved to nothing while the other room has a
\* connection.
C5_Witness ==
    /\ Delivering
    /\ worker.resolved = {}
    /\ RowsOfRoom("lobby") # {}

Same(f, g, d) ==
    (d \in DOMAIN f <=> d \in DOMAIN g) /\ (d \in DOMAIN f => f[d] = g[d])

\* C8: a delivery that fails, gone or transient, leaves the invocation
\* running and not failed, and leaves the outstanding and the finished
\* deliveries of the other connections as they were; when the fanout of the
\* message ends every resolved connection has its own outcome.
C8_FailureIsolation ==
    [][/\ \A c \in ConnIds, o \in {"gone", "transient"} :
            Deliver(c, o) =>
                /\ worker'.status = "running"
                /\ worker'.phase = "DELIVERING"
                /\ lastRun' = lastRun
                /\ shardPos' = shardPos
                /\ \A d \in ConnIds \ {c} :
                       /\ Same(worker.pending, worker'.pending, d)
                       /\ Same(worker.results, worker'.results, d)
       /\ (Delivering /\ DOMAIN worker.pending = {})
            => DOMAIN worker.results = worker.resolved
      ]_vars

\* One connection was pruned or dropped and another one got the message.
C8_Witness ==
    /\ Delivering
    /\ \E c, d \in DOMAIN worker.results :
           worker.results[c] \in {"gone", "dropped"} /\ worker.results[d] = "ok"

\* C9: a failed registry lookup ends the invocation as failed before any
\* delivery of that message, and the position of the shard stays, so the
\* next invocation starts with the same records.
C9_LookupFailure ==
    [][/\ lookupFailures' # lookupFailures =>
            /\ Running /\ worker.phase = "RECEIVED" /\ Touched = {}
            /\ worker' = Idle
            /\ lastRun' = "failed"
            /\ shardPos' = shardPos
            /\ chatConnections' = chatConnections
            /\ stream'[shardPos' + 1] = worker.batch[1]
       /\ (worker = Idle /\ worker' # Idle) =>
            worker'.batch[1] = stream[shardPos + 1]
      ]_vars

\* The invocation that follows a failed one has the same first record.
C9_Witness ==
    /\ lookupFailures > 0
    /\ lastRun = "running"
    /\ Running
    /\ worker.batch[1] = stream[shardPos + 1]

\* C10: a step of the fanout removes from chat-connections only the row of
\* a connection that answers gone in that step, and adds or changes no row.
C10_PruneOnlyGone ==
    [][Fanout =>
          /\ chatConnections' \subseteq chatConnections
          /\ \A x \in chatConnections \ chatConnections' :
                 /\ goneRun'[x.connection_id] # goneRun[x.connection_id]
                 /\ transport[x.connection_id] # "open"
          /\ Cardinality(chatConnections \ chatConnections') <= 1
      ]_vars

\* One connection of the room was pruned and the row of the other is kept.
C10_Witness ==
    /\ Delivering
    /\ \E c, d \in worker.resolved :
           /\ c # d
           /\ c \in DOMAIN worker.results
           /\ worker.results[c] = "gone"
           /\ d \in RegistryIds

\* Records of the stream whose room the running invocation has looked up.
Looked ==
    shardPos + (IF Running
                THEN IF worker.phase = "DELIVERING" THEN worker.idx
                     ELSE worker.idx - 1
                ELSE 0)

\* Connection c was registered for the room of message m before m was
\* appended, is still open, and the fanout has yet to look up the room for m.
Awaiting(m, c) ==
    /\ transport[c] = "open"
    /\ \A i \in 1..Looked : stream[i].id # m
    /\ \E x \in chatConnections, y \in chatMessages :
           /\ x.connection_id = c
           /\ y.id = m
           /\ x.room_id = y.room_id
           /\ x.connected_at < y.ts

Outcome(m, c, o) ==
    /\ Delivering
    /\ CurrentRecord.id = m
    /\ c \in DOMAIN worker.results
    /\ worker.results[c] = o

Disconnected(c) == transport[c] = "closed" /\ c \notin disconnects

\* C11: the delete of ws-ondisconnect and the delete of ws-broadcast on
\* gone, in either order and whether or not the row is still there, leave
\* the table without a row for the connection and with every other row as it
\* was; after both, the connection has no row.
C11_IdempotentDeletes ==
    [][/\ \A c \in ConnIds :
            (OnDisconnect(c) \/ Deliver(c, "gone")) =>
                chatConnections' =
                    {x \in chatConnections : x.connection_id # c}
       /\ \A c \in ConnIds :
            (Disconnected(c)' /\ goneRun'[c] # 0) => c \notin RegistryIds'
      ]_vars

\* Both deletes ran for one connection while another connection has a row.
C11_Witness ==
    \E c \in ConnIds :
        /\ Disconnected(c)
        /\ goneRun[c] # 0
        /\ c \notin RegistryIds
        /\ RegistryIds # {}

\* C12: a connection goes unused -> open -> closed and never back; a row
\* for it appears only in the step that opens it; the $disconnect handler
\* leaves no row for it; once its disconnect was handled that stays so and
\* the handle never has a row again.
C12_ConnectionStateMachine ==
    [][\A c \in ConnIds :
          /\ transport'[c] # transport[c] =>
                \/ transport[c] = "unused" /\ transport'[c] = "open"
                \/ transport[c] = "open" /\ transport'[c] = "closed"
          /\ (c \notin RegistryIds /\ c \in RegistryIds') =>
                (transport[c] = "unused" /\ transport'[c] = "open")
          /\ OnDisconnect(c) => c \notin RegistryIds'
          /\ Disconnected(c) => Disconnected(c)'
          /\ Disconnected(c)' => c \notin RegistryIds'
      ]_vars

\* One connection went through the whole machine with no delivery to it,
\* while the next one is connected.
C12_Witness ==
    \E c, d \in ConnIds :
        /\ Disconnected(c)
        /\ goneRun[c] = 0
        /\ now <= FixedTtl
        /\ transport[d] = "open"
        /\ d \in RegistryIds

\* C13: a row whose ttl has passed is eventually gone from the table,
\* also when the $disconnect of its connection is never handled and the
\* fanout never delivers to it.
C13_TtlReaping ==
    \A c \in ConnIds :
        (\E x \in chatConnections : x.connection_id = c /\ x.ttl < now)
            ~> (c \notin RegistryIds)

\* The row of a connection that is still open, so neither disconnected nor
\* pruned, is gone: it was reaped by TTL.
C13_Witness ==
    \E c \in ConnIds :
        /\ transport[c] = "open"
        /\ c \notin RegistryIds
        /\ c \notin disconnects
        /\ goneRun[c] = 0

\* C14: a frame handled by $default is answered to its sender with
\* "unsupported operation" and leaves the tables, the stream and the fanout
\* as they were.
C14_DefaultFrame ==
    [][\A c \in ConnIds :
          OnDefault(c) =>
              /\ wsFrame'.client = "unsupported operation"
              /\ UNCHANGED <<chatRooms, chatMessages, chatConnections,
                             stream, shardPos, worker>>
      ]_vars

OnePerId(q) == \A i, j \in 1..Len(q) : q[i].id = q[j].id => i = j

\* C15: whatever responses, pushes and refetches were merged, each cache
\* of the client holds at most one entry per message id.
C15_ClientDeduplication == OnePerId(mergedCache) /\ OnePerId(appendCache)

\* A message was merged again with a newer timestamp: the merged cache holds
\* the newer version once, the appended cache the older one once.
C15_Witness ==
    /\ Len(mergedCache) = MaxClientIds
    /\ \E i \in 1..Len(mergedCache), j \in 1..Len(appendCache) :
           /\ mergedCache[i].id = appendCache[j].id
           /\ mergedCache[i].timestamp > appendCache[j].timestamp

\* What the lookup part of a call answers, from the request, chat-rooms and
\* chat-messages alone.
BeginResponse(req) ==
    LET old == {x \in chatMessages : x.room_id = req.room_id
                    /\ x.client_message_id = req.client_message_id}
    IN  IF req.room_id \notin chatRooms
           \/ req.message_text < 1 \/ req.message_text > MaxTextLen
        THEN [req |-> req, status |-> "InvalidRequest", id |-> 0]
        ELSE [req |-> req, status |-> "Stored",
              id |-> (CHOOSE x \in old : \A y \in old : x.ts <= y.ts).id]

\* What the write part of a call answers, from the request, chat-messages,
\* the id counter and the clock alone.
PutResponse(req) ==
    IF \E x \in chatMessages : x.room_id = req.room_id /\ x.ts = now
    THEN [req |-> req, status |-> "StoreUnavailable", id |-> 0]
    ELSE [req |-> req, status |-> "Created", id |-> nextId]

\* C16: the response of a call is a function of the request, chat-rooms,
\* chat-messages, the id counter and the clock, so two runs that differ only
\* in the registry and in which connections are alive answer the same; and
\* no step of the registry or of the fanout changes what a call reads.
C16_SenderIsolation ==
    [][/\ lastCall' # lastCall =>
            lastCall' = IF inflight[1] = NoCall
                        THEN BeginResponse(lastCall'.req)
                        ELSE PutResponse(lastCall'.req)
       /\ registryVars' # registryVars \/ fanoutVars' # fanoutVars =>
            UNCHANGED <<now, ingestVars>>
      ]_vars

\* A call was answered Created while a connection of its room was closed
\* and still registered, and another delivery had been dropped or pruned.
C16_Witness ==
    /\ lastCall.status = "Created"
    /\ lastCall.id = 2
    /\ \E x \in chatConnections :
           x.room_id = lastCall.req.room_id
           /\ transport[x.connection_id] = "closed"
    /\ \E c \in ConnIds : goneRun[c] # 0

Success == {"Created", "Stored"}

\* C17: when a call returns success with an id for a room, chat-messages
\* holds a row with that id under the partition of that room, and the query
\* of the room returns it.
C17_ReadAfterWrite ==
    [][(lastCall' # lastCall /\ lastCall'.status \in Success) =>
          /\ \E x \in chatMessages' :
                 x.id = lastCall'.id /\ x.room_id = lastCall'.req.room_id
          /\ LET found == QueryMessages(chatMessages', lastCall'.req.room_id)
             IN  \E i \in 1..Len(found) : found[i].id = lastCall'.id
      ]_vars

\* The second message of the room was created and is the last of its query.
C17_Witness ==
    /\ lastCall.status = "Created"
    /\ lastCall.id = 2
    /\ Len(GetMessages(lastCall.req.room_id)) = 2
    /\ GetMessages(lastCall.req.room_id)[2].id = 2

Ended(c, o) ==
    Delivering /\ c \in DOMAIN worker.results /\ worker.results[c] = o

\* C18: the step in which a delivery answers gone leaves no row for the
\* connection while the message is still being fanned out, and for the rest
\* of that fanout the row stays away and no delivery to the connection is
\* attempted.
C18_GoneIsFinal ==
    [][\A c \in ConnIds :
          /\ Deliver(c, "gone") =>
                /\ Delivering'
                /\ CurrentRecord' = CurrentRecord
                /\ Ended(c, "gone")'
                /\ c \notin RegistryIds'
          /\ Ended(c, "gone") =>
                /\ c \notin RegistryIds
                /\ c \notin DOMAIN worker.pending
                /\ \A o \in {"ok", "gone", "transient"} : ~Deliver(c, o)
      ]_vars

\* A connection answered gone while the delivery to another connection,
\* which failed transiently, is still outstanding.
C18_Witness ==
    \E c, d \in ConnIds :
        /\ Ended(c, "gone")
        /\ d \in DOMAIN worker.pending
        /\ worker.pending[d] > 0

\* C19: the attempts made for one message and one connection never exceed
\* MaxAttempts; the transient failure of the last one drops the delivery for
\* that connection, keeps every row of the table, and leaves the invocation
\* running and not failed; no attempt follows a drop.
C19_BoundedRetries ==
    [][/\ Delivering =>
            \A c \in DOMAIN worker.pending : worker.pending[c] < MaxAttempts
       /\ \A c \in ConnIds :
            /\ (Deliver(c, "transient")
                /\ worker.pending[c] + 1 = MaxAttempts) =>
                    /\ Ended(c, "dropped")'
                    /\ chatConnections' = chatConnections
                    /\ lastRun' = lastRun
                    /\ lastRun' # "failed"
                    /\ shardPos' = shardPos
            /\ (Deliver(c, "transient")
                /\ worker.pending[c] + 1 < MaxAttempts) =>
                    worker'.pending[c] = worker.pending[c] + 1
            /\ Ended(c, "dropped") =>
                    \A o \in {"ok", "gone", "transient"} : ~Deliver(c, o)
      ]_vars

\* The delivery to an open connection was dropped and its row is kept.
C19_Witness ==
    \E c \in ConnIds :
        /\ Ended(c, "dropped")
        /\ transport[c] = "open"
        /\ c \in RegistryIds

\* The fanout of record i of the running batch is past DELIVERING: the
\* invocation moved on to the next record, or returned without failure.
Done(i) ==
    \/ Running /\ worker.idx = i + 1 /\ worker.phase = "RECEIVED"
    \/ worker = Idle /\ lastRun = "ok"

\* C20: once the connections of a record are resolved its fanout ends,
\* whatever the deliveries answer, and no step taken while it is being
\* delivered fails the invocation.
C20_AlwaysDone ==
    /\ \A i \in 1..MaxMsgs : (Delivering /\ worker.idx = i) ~> Done(i)
    /\ [][Delivering => (lastRun' # "failed" /\ shardPos' >= shardPos)]_vars

\* The fanout of a message ended with one delivery pruned and one dropped.
C20_Witness ==
    /\ Delivering
    /\ DOMAIN worker.pending = {}
    /\ \E c, d \in ConnIds : Ended(c, "gone") /\ Ended(d, "dropped")

\* C21: the records of a batch are the next records of the stream in their
\* order, the fanout takes them one after the other from the first, each
\* after the one before it is finished; among the connections of one record
\* any outstanding delivery may be the next to be made.
C21_FeedOrder ==
    [][/\ Running =>
            /\ \A i \in 1..Len(worker.batch) :
                   worker.batch[i] = stream[shardPos + i]
            /\ Delivering =>
                   \A c \in DOMAIN worker.pending :
                       ENABLED Deliver(c, "transient")
       /\ (worker = Idle /\ Running') => worker'.idx = 1
       /\ (Running /\ Running' /\ worker'.idx # worker.idx) =>
            /\ worker'.idx = worker.idx + 1
            /\ Delivering
            /\ DOMAIN worker.pending = {}
            /\ worker'.phase = "RECEIVED"
      ]_vars

\* In the fanout of the second record of a batch the connection registered
\* last has its message while the one registered first is outstanding.
C21_Witness ==
    /\ Delivering
    /\ worker.idx = 2
    /\ Ended(2, "ok")
    /\ 1 \in DOMAIN worker.pending

\* C22: no two rows of chat-connections have the same connection_id, the
\* ttl of every row is its subscribe time plus FixedTtl, and a row that
\* appears carries a handle no subscribe used before and the current time.
C22_FreshConnection ==
    [][/\ \A x, y \in chatConnections' :
            x.connection_id = y.connection_id => x = y
       /\ \A x \in chatConnections' : x.ttl = x.connected_at + FixedTtl
       /\ \A x \in chatConnections' \ chatConnections :
            /\ transport[x.connection_id] = "unused"
            /\ transport'[x.connection_id] = "open"
            /\ x.connection_id \notin RegistryIds
            /\ x.connected_at = now
            /\ x.ttl = now + FixedTtl
      ]_vars

\* Two connections subscribed at different times both have their row.
C22_Witness ==
    \E x, y \in chatConnections :
        /\ x.connection_id # y.connection_id
        /\ x.connected_at < y.connected_at
        /\ x.ttl < y.ttl

\* C23: every record the fanout works on, and so every delivery it makes,
\* is for a message that is a row of chat-messages in the room of the
\* record; and a step of the rest handler changes neither the registry nor
\* the fanout nor any connection.
C23_SinglePath ==
    [][/\ Running' =>
            \A i \in 1..Len(worker'.batch) :
                \E x \in chatMessages' :
                    /\ x.id = worker'.batch[i].id
                    /\ x.room_id = worker'.batch[i].room_id
       /\ \A c \in ConnIds, o \in {"ok", "gone", "transient"} :
            Deliver(c, o) => CurrentRecord.id \in StoredIds
       /\ (lastCall' # lastCall \/ inflight' # inflight
           \/ chatMessages' # chatMessages) =>
            UNCHANGED <<registryVars, shardPos, worker, runNo, goneRun>>
      ]_vars

\* The first message was delivered to an open connection after the call for
\* another one was refused by the store.
C23_Witness ==
    /\ Delivering
    /\ CurrentRecord.id = 1
    /\ \E c \in ConnIds : Ended(c, "ok")
    /\ lastCall.status = "StoreUnavailable"

C25_RoomsExist ==
    /\ \A x \in chatMessages : x.room_id \in chatRooms
    /\ \A x \in chatConnections : x.room_id \in chatRooms

\* C26: as long as a connection_id has a row, the room of that row is the
\* one it was put with: no step changes the row of a connection_id that
\* keeps one.
C26_OneRoomForLife ==
    [][\A x \in chatConnections, y \in chatConnections' :
          x.connection_id = y.connection_id =>
              (y.room_id = x.room_id /\ y.connected_at = x.connected_at)
      ]_vars

\* A connection kept its row and its room while a later connection was put
\* into the other room.
C26_Witness ==
    \E x, y \in chatConnections :
        /\ x.connected_at < y.connected_at
        /\ x.room_id # y.room_id
        /\ y.connected_at < now

RoomOf(c) == {x.room_id : x \in {y \in chatConnections : y.connection_id = c}}

\* C27: the connections resolved for a record are those that have a row
\* with the room of the record, deliveries are made to resolved connections
\* only, and never to a connection whose row names another room.
C27_RoomIsolation ==
    [][/\ (Running /\ worker.phase = "RECEIVED" /\ Delivering') =>
            \A c \in worker'.resolved : RoomOf(c) = {CurrentRecord.room_id}
       /\ Delivering => Touched \subseteq worker.resolved
       /\ \A c \in ConnIds, o \in {"ok", "gone", "transient"} :
            Deliver(c, o) =>
                /\ c \in worker.resolved
                /\ RoomOf(c) \subseteq {CurrentRecord.room_id}
      ]_vars

\* A message of general reached the connection of general while an open
\* connection of lobby has its row and is not among the resolved ones.
C27_Witness ==
    \E c, d \in ConnIds :
        /\ Ended(c, "ok")
        /\ CurrentRecord.room_id = "general"
        /\ RoomOf(d) = {"lobby"}
        /\ d < c
        /\ transport[d] = "open"
        /\ worker.resolved = {c}

\* Position of message id in the stream of the table: the order of appends.
AppendedAt(id) == CHOOSE i \in 1..Len(stream) : stream[i].id = id

\* C28: as long as no batch was redelivered, every connection holds the
\* first copies of the messages it received in the order of their appends.
C28_ConnectionOrder ==
    lookupFailures = 0 =>
        \A c \in ConnIds : \A i, j \in 1..Len(received[c]) :
            i < j => AppendedAt(received[c][i]) < AppendedAt(received[c][j])

\* A connection received two messages of one batch, none redelivered.
C28_Witness ==
    \E c \in ConnIds :
        /\ lookupFailures = 0
        /\ Len(received[c]) = 2
        /\ Running
        /\ Len(worker.batch) = 2
        /\ runNo = 1

\* C29: a connection that subscribed, is still connected and never answered
\* a delivery with gone has its row in chat-connections, however long ago
\* it subscribed.
C29_ConnectedKeepsRow ==
    \A c \in ConnIds :
        (transport[c] = "open" /\ goneRun[c] = 0) => c \in RegistryIds

\* The fanout of the record at position i of the stream has run to its end:
\* every connection resolved for it has an outcome and none is outstanding.
FannedOut(i) ==
    /\ Delivering
    /\ shardPos + worker.idx = i
    /\ DOMAIN worker.pending = {}
    /\ DOMAIN worker.results = worker.resolved

\* C30: an invocation that fails on a registry lookup leaves every record of
\* its batch, before and after the failing one, as the next records of the
\* shard, and every record that an invocation has yet to finish, or that
\* waits after a failed invocation, is eventually fanned out to the
\* connections resolved for its room.
C30_NoMessageLost ==
    /\ [][lookupFailures' # lookupFailures =>
             \A k \in 1..Len(worker.batch) :
                 /\ shardPos' + k <= Len(stream')
                 /\ stream'[shardPos' + k] = worker.batch[k]]_vars
    /\ \A i \in 1..MaxMsgs :
           (Running /\ shardPos + worker.idx <= i
                /\ i <= shardPos + Len(worker.batch))
               ~> FannedOut(i)
    /\ \A i \in 1..MaxMsgs :
           (worker = Idle /\ lastRun = "failed" /\ shardPos < i
                /\ i <= Len(stream))
               ~> FannedOut(i)

\* The first invocation fanned out the first record, where a connection
\* answered gone, and failed on the lookup for the second; the second
\* invocation got both records again and delivered the second.
C30_Witness ==
    /\ lookupFailures = 1
    /\ runNo = 2
    /\ \E c \in ConnIds : goneRun[c] = 1
    /\ FannedOut(2)
    /\ \E d \in ConnIds : Ended(d, "ok")

====
